---- MODULE Spec2Model ----
(***************************************************************************)
(* Protocol decoder and session state of the DHJC monitor                  *)
(* (src/src/dhjc_core.rs).                                                 *)
(*                                                                         *)
(* A text line is a sequence of one-character strings.  An Option<T> is a  *)
(* sequence of length at most one: None is << >> and Some(x) is << x >>.   *)
(* An f64 number of seconds or milliseconds is held as an exact decimal,   *)
(* an integer count of thousandths of the unit (FRAC decimal places);      *)
(* binary rounding of f64 is not represented.                              *)
(***************************************************************************)
EXTENDS Integers, Sequences, FiniteSets, TLC

None == << >>
Some(x) == << x >>
IsSome(o) == Len(o) = 1
Unwrap(o) == o[1]

I32_MAX == 2147483647
I32_MIN == (-I32_MAX) - 1

\* decimal places kept of an f64 value
FRAC == 3

----------------------------------------------------------------------------
(* Characters                                                              *)

Digits == {"0","1","2","3","4","5","6","7","8","9"}

DigitVal(ch) ==
    CASE ch = "0" -> 0 [] ch = "1" -> 1 [] ch = "2" -> 2 [] ch = "3" -> 3
      [] ch = "4" -> 4 [] ch = "5" -> 5 [] ch = "6" -> 6 [] ch = "7" -> 7
      [] ch = "8" -> 8 [] ch = "9" -> 9

\* bytes below 0x20 other than TAB that occur in the modelled lines
ControlBytes == {"\n", "\r"}

\* b == b'\t' || b >= 0x20
IsKept(b) == b = "\t" \/ b \notin ControlBytes

\* char::is_whitespace on the characters that occur in the modelled lines
IsWhitespace(ch) == ch \in {" ", "\t", "\n", "\r"}

----------------------------------------------------------------------------
(* Keywords                                                                *)

KEY_RESET == <<"S","Y","S","T","E","M"," ","R","E","S","E","T"," ","O","K">>
KEY_Live == <<"[","L","i","v","e","]">>
KEY_LIVE == <<"[","L","I","V","E","]">>
KEY_Stage == <<"S","t","a","g","e",":">>
KEY_Total == <<"T","o","t","a","l",":">>
KEY_Duration == <<"D","u","r","a","t","i","o","n">>
KEY_ActiveTime == <<"A","c","t","i","v","e"," ","T","i","m","e">>
KEY_GrandTotal == <<"G","r","a","n","d"," ","T","o","t","a","l">>

----------------------------------------------------------------------------
(* String operations                                                       *)

\* str::find: index of the first occurrence of key in src, 0 when absent
Find(src, key) ==
    LET hits == { i \in 1..(Len(src) - Len(key) + 1) :
                      SubSeq(src, i, i + Len(key) - 1) = key }
    IN  IF hits = {} THEN 0
        ELSE CHOOSE i \in hits : \A j \in hits : i <= j

\* str::contains
Contains(src, key) == Find(src, key) # 0

\* the control-byte filter at the head of process_line
Sanitize(raw) == SelectSeq(raw, IsKept)

RECURSIVE TrimStart(_)
TrimStart(s) ==
    IF s # << >> /\ IsWhitespace(Head(s)) THEN TrimStart(Tail(s)) ELSE s

RECURSIVE TrimEnd(_)
TrimEnd(s) ==
    IF s # << >> /\ IsWhitespace(s[Len(s)])
    THEN TrimEnd(SubSeq(s, 1, Len(s) - 1)) ELSE s

\* str::trim
Trim(s) == TrimEnd(TrimStart(s))

----------------------------------------------------------------------------
(* Numeric token extraction                                                *)

\* the capture loop of find_int_after: s is the captured text so far
RECURSIVE IntCapture(_, _, _)
IntCapture(chars, s, started) ==
    IF chars = << >> THEN s
    ELSE LET ch == Head(chars) IN
         IF ~started
         THEN IF ch \in Digits \/ ch = "+" \/ ch = "-"
              THEN IntCapture(Tail(chars), Append(s, ch), TRUE)
              ELSE IntCapture(Tail(chars), s, FALSE)
         ELSE IF ch \in Digits
              THEN IntCapture(Tail(chars), Append(s, ch), TRUE)
              ELSE s

\* the capture loop of find_double_after
RECURSIVE DoubleCapture(_, _, _)
DoubleCapture(chars, s, started) ==
    IF chars = << >> THEN s
    ELSE LET ch == Head(chars) IN
         IF ~started
         THEN IF ch \in Digits \/ ch = "." \/ ch = "+" \/ ch = "-"
              THEN DoubleCapture(Tail(chars), Append(s, ch), TRUE)
              ELSE DoubleCapture(Tail(chars), s, FALSE)
         ELSE IF ch \in Digits \/ ch = "."
              THEN DoubleCapture(Tail(chars), Append(s, ch), TRUE)
              ELSE s

\* accumulation of i32::from_str: None on overflow of the 32-bit range
RECURSIVE I32Digits(_, _, _)
I32Digits(ds, acc, neg) ==
    IF ds = << >> THEN Some(acc)
    ELSE LET d == DigitVal(Head(ds)) IN
         IF neg
         THEN IF acc < ((I32_MIN + d) + 9) \div 10 THEN None
              ELSE I32Digits(Tail(ds), acc * 10 - d, neg)
         ELSE IF acc > (I32_MAX - d) \div 10 THEN None
              ELSE I32Digits(Tail(ds), acc * 10 + d, neg)

\* str::parse::<i32>().ok(): an optional sign, then one or more digits
ParseI32(s) ==
    IF s = << >> THEN None
    ELSE LET signed == Head(s) \in {"+", "-"}
             ds == IF signed THEN Tail(s) ELSE s
         IN  IF ds = << >> \/ \E i \in 1..Len(ds) : ds[i] \notin Digits
             THEN None
             ELSE I32Digits(ds, 0, Head(s) = "-")

RECURSIVE DecDigits(_, _)
DecDigits(ds, acc) ==
    IF ds = << >> THEN acc
    ELSE DecDigits(Tail(ds), acc * 10 + DigitVal(Head(ds)))

RECURSIVE Pow10(_)
Pow10(n) == IF n = 0 THEN 1 ELSE 10 * Pow10(n - 1)

\* str::parse::<f64>().ok() on a text of signs, digits and points: an
\* optional sign, digits with at most one point, at least one digit.
\* The value is returned with FRAC decimal places.
ParseF64(s) ==
    IF s = << >> THEN None
    ELSE LET signed == Head(s) \in {"+", "-"}
             body == IF signed THEN Tail(s) ELSE s
             dot == Find(body, <<".">>)
             ip == IF dot = 0 THEN body ELSE SubSeq(body, 1, dot - 1)
             fp == IF dot = 0 THEN << >> ELSE SubSeq(body, dot + 1, Len(body))
             ok == /\ \A i \in 1..Len(ip) : ip[i] \in Digits
                   /\ \A i \in 1..Len(fp) : fp[i] \in Digits
                   /\ Len(ip) + Len(fp) > 0
             mag == IF Len(fp) <= FRAC
                    THEN DecDigits(ip \o fp, 0) * Pow10(FRAC - Len(fp))
                    ELSE DecDigits(ip \o fp, 0) \div Pow10(Len(fp) - FRAC)
         IN  IF ~ok THEN None
             ELSE Some(IF Head(s) = "-" THEN -mag ELSE mag)

find_int_after_LastOccurrence(src, key) ==
    LET hits == { i \in 1..(Len(src) - Len(key) + 1) :
                      SubSeq(src, i, i + Len(key) - 1) = key }
    IN  IF hits = {} THEN None
        ELSE LET at == CHOOSE i \in hits : \A j \in hits : i >= j
                 s == IntCapture(SubSeq(src, at + Len(key), Len(src)),
                                 << >>, FALSE)
             IN  IF s = << >> THEN None ELSE ParseI32(s)

find_int_after(src, key) ==
    LET at == Find(src, key) IN
    IF at = 0 THEN None
    ELSE LET s == IntCapture(SubSeq(src, at + Len(key), Len(src)), << >>, FALSE)
         IN  IF s = << >> THEN None ELSE ParseI32(s)

\* the text find_double_after has captured when it leaves its loop (the
\* local s), empty when the keyword is absent
DoubleLiteral(src, key) ==
    LET at == Find(src, key) IN
    IF at = 0 THEN << >>
    ELSE DoubleCapture(SubSeq(src, at + Len(key), Len(src)), << >>, FALSE)

find_double_after(src, key) ==
    LET at == Find(src, key) IN
    IF at = 0 THEN None
    ELSE LET s == DoubleCapture(SubSeq(src, at + Len(key), Len(src)), << >>, FALSE)
         IN  IF s = << >> THEN None ELSE ParseF64(s)

----------------------------------------------------------------------------
(* Input lines                                                             *)

\* bound on |active_time_s| (thousandths of a second) reached by Duration
MaxActive == 3000
\* number of distinct readings of the wall clock
MaxClock == 2

Clock == 1..MaxClock

SP == <<" ">>
MARK_Live == KEY_Live \o SP
MARK_LIVE == KEY_LIVE \o SP
MARK_live == <<"[","l","i","v","e","]"," ">>
MARK_RESET == KEY_RESET \o SP

F_StageNone == KEY_Stage \o <<" ">>
F_Stage1 == KEY_Stage \o <<" ","1"," ">>
F_Stage3 == KEY_Stage \o <<" ","3"," ">>
F_StageNeg == KEY_Stage \o <<" ","-","2"," ">>
F_Total3 == KEY_Total \o <<" ","3"," ">>
F_Total5 == KEY_Total \o <<" ","5"," ">>
F_Grand3 == KEY_GrandTotal \o <<" ","3"," ">>
F_Grand5 == KEY_GrandTotal \o <<":"," ","5"," ">>
F_GrandNeg == KEY_GrandTotal \o <<" ","-","2"," ">>
F_Dur == KEY_Duration \o <<":"," ","1","5","0","0"," ">>
F_DurNeg == KEY_Duration \o <<":"," ","-","1","5","0","0"," ">>
F_DurDots == KEY_Duration \o <<":"," ","1",".","2",".","3"," ">>
F_Active == KEY_ActiveTime \o <<":"," ","1","2",".","3","4","5"," ">>
F_ActiveHalf == KEY_ActiveTime \o <<":"," ",".","5"," ">>

FieldSeq ==
    << F_Stage1, F_Stage3, F_StageNeg, F_Total3, F_Total5,
       F_Dur, F_DurNeg, F_DurDots, F_Active, F_ActiveHalf,
       F_Grand3, F_Grand5, F_GrandNeg >>

Single == { << >> } \cup { FieldSeq[i] : i \in DOMAIN FieldSeq }

\* no field, one field, or two different fields in the order of FieldSeq
Bodies ==
    Single
      \cup { FieldSeq[p[1]] \o FieldSeq[p[2]] :
                 p \in { q \in (DOMAIN FieldSeq) \X (DOMAIN FieldSeq) :
                             q[1] < q[2] } }

\* markers tried with every body, and markers tried with at most one field
Markers == { << >>, MARK_Live, MARK_LIVE, MARK_live, MARK_RESET }
MarkersSingle == { MARK_RESET \o MARK_Live, MARK_Live \o MARK_RESET }

LINE_LiveExample ==
    MARK_Live \o KEY_Stage \o <<" ","3"," ">> \o KEY_Total
      \o <<" ","1","2","0"," ","W","a","i","t",":"," ","5","0"," ","m","s">>
LINE_Rollback == MARK_Live \o KEY_Stage \o <<" ","1"," ">> \o KEY_Total \o <<" ","3">>
LINE_Seed == MARK_Live \o KEY_Stage \o <<" ","1"," ">> \o KEY_Total \o <<" ","5">>
LINE_Report ==
    <<"[","S","T","A","G","E"," ","R","E","P","O","R","T","]"," ",
      "S","t","a","g","e"," ","1"," ">> \o KEY_Duration
      \o <<":"," ","1","5","0","0"," ","m","s">>
LINE_Summary ==
    <<"[","T","O","T","A","L"," ","S","U","M","M","A","R","Y","]"," ">>
      \o KEY_ActiveTime \o <<":"," ","1","2",".","3","4","5"," ","s"," ">>
      \o KEY_GrandTotal \o <<":"," ","1","2","0">>
LINE_All == F_Dur \o F_Active \o F_Grand5
LINE_StageRunOn == MARK_Live \o F_StageNone \o F_Total3
LINE_StageSign == MARK_Live \o KEY_Stage \o <<" ","-"," ">> \o F_Total5
LINE_StageHuge ==
    MARK_Live \o KEY_Stage
      \o <<" ","9","9","9","9","9","9","9","9","9","9","9"," ">> \o F_Total5
LINE_GrandHuge == KEY_GrandTotal \o <<" ","-","2","1","4","7","4","8","3","6","4","9">>
LINE_ActiveSign == KEY_ActiveTime \o <<":"," ","+"," ","7">>
LINE_MixedCase == <<"[","L","i","V","e","]"," ">> \o F_Stage3 \o F_Total5
LINE_ResetCtl == <<"S","Y","S","T","E","M","\r"," ","R","E","S","E","T"," ","O","K">>
LINE_LiveCtl ==
    <<"\n","[","L","i","\n","v","e","]"," ","S","t","a","g","e",":"," ","3","\r","\n">>
LINE_Noise == <<"h","e","l","l","o">>

BlankLines == { << >>, <<" ">>, <<"\n">>, <<"\r","\t"," ","\n">> }

Lines ==
    { m \o b : m \in Markers, b \in Bodies }
      \cup { m \o b : m \in MarkersSingle, b \in Single }
      \cup BlankLines
      \cup { LINE_LiveExample, LINE_Rollback, LINE_Seed, LINE_Report,
             LINE_Summary, LINE_All, LINE_StageRunOn, LINE_StageSign,
             LINE_StageHuge, LINE_GrandHuge, LINE_ActiveSign,
             LINE_MixedCase, LINE_ResetCtl,
             LINE_LiveCtl, LINE_Noise }

----------------------------------------------------------------------------
(* CoreState, Change and the decoder                                       *)

\* CoreState::new
CoreNew ==
    [ stage |-> 0, current_total |-> 0, active_time_s |-> 0,
      last_timestamp |-> None, active_from_mcu |-> FALSE ]

\* Change::default
ChangeDefault ==
    [ system_reset |-> FALSE, stage_changed |-> FALSE,
      active_changed |-> FALSE, total_changed |-> FALSE,
      session_reset |-> FALSE ]

\* reset_session
reset_session(s) ==
    [ s EXCEPT !.current_total = 0, !.stage = 0, !.active_time_s = 0,
               !.active_from_mcu = FALSE, !.last_timestamp = None ]

\* What process_line reads off one line: whether the sanitized, trimmed
\* text is empty, and the result of every scan it makes of that text.
Scanned(line) ==
    LET clean == Trim(Sanitize(line)) IN
    [ stage |-> find_int_after(clean, KEY_Stage),
      empty |-> clean = << >>,
      reset |-> Contains(clean, KEY_RESET),
      live |-> Contains(clean, KEY_Live) \/ Contains(clean, KEY_LIVE),
      total |-> find_int_after(clean, KEY_Total),
      duration |-> find_double_after(clean, KEY_Duration),
      active_time |-> find_double_after(clean, KEY_ActiveTime),
      grand_total |-> find_int_after(clean, KEY_GrandTotal) ]

----------------------------------------------------------------------------
(* What the properties say about the text of a line, apart from what       *)
(* process_line reads off it                                               *)

UpperCase ==
    <<"A","B","C","D","E","F","G","H","I","J","K","L","M",
      "N","O","P","Q","R","S","T","U","V","W","X","Y","Z">>
LowerCase ==
    <<"a","b","c","d","e","f","g","h","i","j","k","l","m",
      "n","o","p","q","r","s","t","u","v","w","x","y","z">>

ToLower(text) ==
    [ i \in DOMAIN text |->
        IF \E k \in DOMAIN UpperCase : UpperCase[k] = text[i]
        THEN LowerCase[CHOOSE k \in DOMAIN UpperCase : UpperCase[k] = text[i]]
        ELSE text[i] ]

\* text with every occurrence of from replaced by to, left to right
RECURSIVE ReplaceAll(_, _, _)
ReplaceAll(text, from, to) ==
    LET at == Find(text, from) IN
    IF at = 0 THEN text
    ELSE SubSeq(text, 1, at - 1) \o to
           \o ReplaceAll(SubSeq(text, at + Len(from), Len(text)), from, to)

\* the line with one total keyword substituted for the other
SwapTotalKeyword(text) ==
    IF Contains(text, KEY_GrandTotal)
    THEN ReplaceAll(text, KEY_GrandTotal, KEY_Total)
    ELSE ReplaceAll(text, KEY_Total, KEY_GrandTotal)

\* the report line of a live line: the live marker dropped and Grand Total
\* substituted for Total:
ReportTwin(text) ==
    ReplaceAll(ReplaceAll(ReplaceAll(text, KEY_Live, << >>), KEY_LIVE, << >>),
               KEY_Total, KEY_GrandTotal)

\* live_any_case: the text contains the live marker in some letter case
\* own_total:     the value of a Total: field that is not the tail of a
\*                Grand Total field
\* swapped, twin: what process_line reads off the substituted lines
LineFacts(line) ==
    LET clean == Trim(Sanitize(line)) IN
    [ live_any_case |-> Contains(ToLower(clean), ToLower(KEY_Live)),
      own_total |->
          find_int_after(ReplaceAll(clean, KEY_GrandTotal, <<"#">>), KEY_Total),
      swapped |-> Scanned(SwapTotalKeyword(Sanitize(line))),
      twin |-> Scanned(ReportTwin(Sanitize(line))) ]

\* the scans depend on the line only: every line is paired once with what
\* process_line reads off it and with what the properties say about it
LineScans == { << line, Scanned(line), LineFacts(line) >> : line \in Lines }

\* A call of process_line leaves a trace of what it did to the CoreState,
\* in program order:
\*   <<"stage", v>>         self.stage = v
\*   <<"active", v, mcu>>   self.active_time_s = v; self.active_from_mcu = mcu
\*   <<"update_total", n>>  update_total_from_live entered with new_total = n
\*   <<"reset">>            reset_session
\*   <<"total", v>>         self.current_total = v
\*   <<"timestamp", t>>     self.last_timestamp = Some(t), t read off the clock
Progress(s, ch, tr) == [ core |-> s, change |-> ch, trace |-> tr ]

update_total_from_live_NoReset(r, new_total, now) ==
    LET tr == Append(r.trace, <<"update_total", new_total>>) IN
    IF new_total < r.core.current_total
    THEN Progress([ r.core EXCEPT !.current_total = new_total ],
                  [ r.change EXCEPT !.session_reset = TRUE,
                                    !.total_changed = TRUE ],
                  tr \o << <<"total", new_total>> >>)
    ELSE IF new_total > r.core.current_total
    THEN Progress([ r.core EXCEPT !.current_total = new_total,
                                  !.last_timestamp = Some(now) ],
                  [ r.change EXCEPT !.total_changed = TRUE ],
                  tr \o << <<"total", new_total>>, <<"timestamp", now>> >>)
    ELSE Progress(r.core, r.change, tr)

update_total_from_live_NoStamp(r, new_total, now) ==
    LET tr == Append(r.trace, <<"update_total", new_total>>) IN
    IF new_total < r.core.current_total
    THEN Progress([ reset_session(r.core) EXCEPT !.current_total = new_total ],
                  [ r.change EXCEPT !.session_reset = TRUE,
                                    !.total_changed = TRUE ],
                  tr \o << <<"reset">>, <<"total", new_total>> >>)
    ELSE IF new_total > r.core.current_total
    THEN Progress([ r.core EXCEPT !.current_total = new_total ],
                  [ r.change EXCEPT !.total_changed = TRUE ],
                  tr \o << <<"total", new_total>> >>)
    ELSE Progress(r.core, r.change, tr)

update_total_from_live_EqStamp(r, new_total, now) ==
    LET tr == Append(r.trace, <<"update_total", new_total>>) IN
    IF new_total < r.core.current_total
    THEN Progress([ reset_session(r.core) EXCEPT !.current_total = new_total ],
                  [ r.change EXCEPT !.session_reset = TRUE,
                                    !.total_changed = TRUE ],
                  tr \o << <<"reset">>, <<"total", new_total>> >>)
    ELSE Progress([ r.core EXCEPT !.current_total = new_total,
                                  !.last_timestamp = Some(now) ],
                  [ r.change EXCEPT !.total_changed = TRUE ],
                  tr \o << <<"total", new_total>>, <<"timestamp", now>> >>)

update_total_from_live_ResetLast(r, new_total, now) ==
    LET tr == Append(r.trace, <<"update_total", new_total>>) IN
    IF new_total < r.core.current_total
    THEN Progress(reset_session([ r.core EXCEPT !.current_total = new_total ]),
                  [ r.change EXCEPT !.session_reset = TRUE,
                                    !.total_changed = TRUE ],
                  tr \o << <<"total", new_total>>, <<"reset">> >>)
    ELSE IF new_total > r.core.current_total
    THEN Progress([ r.core EXCEPT !.current_total = new_total,
                                  !.last_timestamp = Some(now) ],
                  [ r.change EXCEPT !.total_changed = TRUE ],
                  tr \o << <<"total", new_total>>, <<"timestamp", now>> >>)
    ELSE Progress(r.core, r.change, tr)

update_total_from_live_RollbackStamp(r, new_total, now) ==
    LET tr == Append(r.trace, <<"update_total", new_total>>) IN
    IF new_total < r.core.current_total
    THEN Progress([ reset_session(r.core) EXCEPT !.current_total = new_total,
                                                 !.last_timestamp = Some(now) ],
                  [ r.change EXCEPT !.session_reset = TRUE,
                                    !.total_changed = TRUE ],
                  tr \o << <<"reset">>, <<"total", new_total>>,
                           <<"timestamp", now>> >>)
    ELSE IF new_total > r.core.current_total
    THEN Progress([ r.core EXCEPT !.current_total = new_total,
                                  !.last_timestamp = Some(now) ],
                  [ r.change EXCEPT !.total_changed = TRUE ],
                  tr \o << <<"total", new_total>>, <<"timestamp", now>> >>)
    ELSE Progress(r.core, r.change, tr)

\* update_total_from_live.  r is the decoder's progress through the line
\* (CoreState, Change, trace); now is the reading of the clock.
update_total_from_live(r, new_total, now) ==
    LET tr == Append(r.trace, <<"update_total", new_total>>) IN
    IF new_total < r.core.current_total
    THEN Progress([ reset_session(r.core) EXCEPT !.current_total = new_total ],
                  [ r.change EXCEPT !.session_reset = TRUE,
                                    !.total_changed = TRUE ],
                  tr \o << <<"reset">>, <<"total", new_total>> >>)
    ELSE IF new_total > r.core.current_total
    THEN Progress([ r.core EXCEPT !.current_total = new_total,
                                  !.last_timestamp = Some(now) ],
                  [ r.change EXCEPT !.total_changed = TRUE ],
                  tr \o << <<"total", new_total>>, <<"timestamp", now>> >>)
    ELSE Progress(r.core, r.change, tr)

StageRule_AbsentClears(s, sc) ==
    IF IsSome(sc.stage) /\ Unwrap(sc.stage) # s.stage
    THEN Progress([ s EXCEPT !.stage = Unwrap(sc.stage) ],
                  [ ChangeDefault EXCEPT !.stage_changed = TRUE ],
                  << <<"stage", Unwrap(sc.stage)>> >>)
    ELSE IF ~IsSome(sc.stage) /\ s.stage # 0
    THEN Progress([ s EXCEPT !.stage = 0 ],
                  [ ChangeDefault EXCEPT !.stage_changed = TRUE ],
                  << <<"stage", 0>> >>)
    ELSE Progress(s, ChangeDefault, << >>)

\* rule 3a of the [Live] branch: Stage:
StageRule(s, sc) ==
    IF IsSome(sc.stage) /\ Unwrap(sc.stage) # s.stage
    THEN Progress([ s EXCEPT !.stage = Unwrap(sc.stage) ],
                  [ ChangeDefault EXCEPT !.stage_changed = TRUE ],
                  << <<"stage", Unwrap(sc.stage)>> >>)
    ELSE Progress(s, ChangeDefault, << >>)

LiveBranch_AlwaysFlag(s, sc, now) ==
    LET r0 == StageRule(s, sc)
        r1 == [ r0 EXCEPT !.change.stage_changed = IsSome(sc.stage) ]
    IN  IF IsSome(sc.total)
        THEN update_total_from_live(r1, Unwrap(sc.total), now)
        ELSE r1

LiveBranch_TotalFirst(s, sc, now) ==
    LET r1 == IF IsSome(sc.total)
              THEN update_total_from_live(Progress(s, ChangeDefault, << >>),
                                          Unwrap(sc.total), now)
              ELSE Progress(s, ChangeDefault, << >>)
    IN  IF IsSome(sc.stage) /\ Unwrap(sc.stage) # r1.core.stage
        THEN Progress([ r1.core EXCEPT !.stage = Unwrap(sc.stage) ],
                      [ r1.change EXCEPT !.stage_changed = TRUE ],
                      Append(r1.trace, <<"stage", Unwrap(sc.stage)>>))
        ELSE r1

\* the [Live] branch of process_line
LiveBranch(s, sc, now) ==
    LET r1 == StageRule(s, sc)
    IN  IF IsSome(sc.total)
        THEN update_total_from_live(r1, Unwrap(sc.total), now)
        ELSE r1

ActiveRule_DurationSets(s, sc) ==
    IF IsSome(sc.duration)
    THEN LET v == Unwrap(sc.duration) \div 1000 IN
         Progress([ s EXCEPT !.active_time_s = v, !.active_from_mcu = FALSE ],
                  [ ChangeDefault EXCEPT !.active_changed = TRUE ],
                  << <<"active", v, FALSE>> >>)
    ELSE IF IsSome(sc.active_time)
    THEN LET v == Unwrap(sc.active_time) IN
         Progress([ s EXCEPT !.active_time_s = v, !.active_from_mcu = TRUE ],
                  [ ChangeDefault EXCEPT !.active_changed = TRUE ],
                  << <<"active", v, TRUE>> >>)
    ELSE Progress(s, ChangeDefault, << >>)

ActiveRule_ActiveAdds(s, sc) ==
    IF IsSome(sc.duration)
    THEN LET v == s.active_time_s + (Unwrap(sc.duration) \div 1000) IN
         Progress([ s EXCEPT !.active_time_s = v, !.active_from_mcu = FALSE ],
                  [ ChangeDefault EXCEPT !.active_changed = TRUE ],
                  << <<"active", v, FALSE>> >>)
    ELSE IF IsSome(sc.active_time)
    THEN LET v == s.active_time_s + Unwrap(sc.active_time) IN
         Progress([ s EXCEPT !.active_time_s = v, !.active_from_mcu = TRUE ],
                  [ ChangeDefault EXCEPT !.active_changed = TRUE ],
                  << <<"active", v, TRUE>> >>)
    ELSE Progress(s, ChangeDefault, << >>)

ActiveRule_ActiveFirst(s, sc) ==
    IF IsSome(sc.active_time)
    THEN LET v == Unwrap(sc.active_time) IN
         Progress([ s EXCEPT !.active_time_s = v, !.active_from_mcu = TRUE ],
                  [ ChangeDefault EXCEPT !.active_changed = TRUE ],
                  << <<"active", v, TRUE>> >>)
    ELSE IF IsSome(sc.duration)
    THEN LET v == s.active_time_s + (Unwrap(sc.duration) \div 1000) IN
         Progress([ s EXCEPT !.active_time_s = v, !.active_from_mcu = FALSE ],
                  [ ChangeDefault EXCEPT !.active_changed = TRUE ],
                  << <<"active", v, FALSE>> >>)
    ELSE Progress(s, ChangeDefault, << >>)

ActiveRule_ActiveNoFlag(s, sc) ==
    IF IsSome(sc.duration)
    THEN LET v == s.active_time_s + (Unwrap(sc.duration) \div 1000) IN
         Progress([ s EXCEPT !.active_time_s = v, !.active_from_mcu = FALSE ],
                  [ ChangeDefault EXCEPT !.active_changed = TRUE ],
                  << <<"active", v, FALSE>> >>)
    ELSE IF IsSome(sc.active_time)
    THEN LET v == Unwrap(sc.active_time) IN
         Progress([ s EXCEPT !.active_time_s = v, !.active_from_mcu = TRUE ],
                  ChangeDefault,
                  << <<"active", v, TRUE>> >>)
    ELSE Progress(s, ChangeDefault, << >>)

ActiveRule_DeviceRestarts(s, sc) ==
    IF IsSome(sc.duration)
    THEN LET v == IF s.active_from_mcu
                  THEN Unwrap(sc.duration) \div 1000
                  ELSE s.active_time_s + (Unwrap(sc.duration) \div 1000) IN
         Progress([ s EXCEPT !.active_time_s = v, !.active_from_mcu = FALSE ],
                  [ ChangeDefault EXCEPT !.active_changed = TRUE ],
                  << <<"active", v, FALSE>> >>)
    ELSE IF IsSome(sc.active_time)
    THEN LET v == Unwrap(sc.active_time) IN
         Progress([ s EXCEPT !.active_time_s = v, !.active_from_mcu = TRUE ],
                  [ ChangeDefault EXCEPT !.active_changed = TRUE ],
                  << <<"active", v, TRUE>> >>)
    ELSE Progress(s, ChangeDefault, << >>)

\* rules 1 and 2 of the report branch: Duration, else Active Time
ActiveRule(s, sc) ==
    IF IsSome(sc.duration)
    THEN LET v == s.active_time_s + (Unwrap(sc.duration) \div 1000) IN
         Progress([ s EXCEPT !.active_time_s = v, !.active_from_mcu = FALSE ],
                  [ ChangeDefault EXCEPT !.active_changed = TRUE ],
                  << <<"active", v, FALSE>> >>)
    ELSE IF IsSome(sc.active_time)
    THEN LET v == Unwrap(sc.active_time) IN
         Progress([ s EXCEPT !.active_time_s = v, !.active_from_mcu = TRUE ],
                  [ ChangeDefault EXCEPT !.active_changed = TRUE ],
                  << <<"active", v, TRUE>> >>)
    ELSE Progress(s, ChangeDefault, << >>)

ReportBranch_GrandNoReset(s, sc, now) ==
    LET r1 == ActiveRule(s, sc)
    IN  IF IsSome(sc.grand_total)
        THEN update_total_from_live_NoReset(r1, Unwrap(sc.grand_total), now)
        ELSE r1

\* the report branch of process_line (stage report / total summary)
ReportBranch(s, sc, now) ==
    LET r1 == ActiveRule(s, sc)
    IN  IF IsSome(sc.grand_total)
        THEN update_total_from_live(r1, Unwrap(sc.grand_total), now)
        ELSE r1

\* the reset branch of process_line
ResetBranch(s) ==
    Progress(reset_session(s),
             [ ChangeDefault EXCEPT !.system_reset = TRUE,
                                    !.session_reset = TRUE ],
             << <<"reset">> >>)

ProcessLine_LiveBeforeReset(s, sc, now) ==
    IF sc.empty THEN Progress(s, ChangeDefault, << >>)
    ELSE IF sc.live THEN LiveBranch(s, sc, now)
    ELSE IF sc.reset THEN ResetBranch(s)
    ELSE ReportBranch(s, sc, now)

ProcessLine_BlankAsReset(s, sc, now) ==
    IF sc.empty \/ sc.reset THEN ResetBranch(s)
    ELSE IF sc.live THEN LiveBranch(s, sc, now)
    ELSE ReportBranch(s, sc, now)

\* process_line as a function of the CoreState, of what it reads off the
\* line and of the clock
ProcessLine(s, sc, now) ==
    IF sc.empty THEN Progress(s, ChangeDefault, << >>)
    ELSE IF sc.reset THEN ResetBranch(s)
    ELSE IF sc.live THEN LiveBranch(s, sc, now)
    ELSE ReportBranch(s, sc, now)

----------------------------------------------------------------------------
(* State machine: a caller hands one line at a time to process_line        *)

VARIABLES
    core,       \* the CoreState
    pc,         \* "idle", "called" (process_line entered), "returned"
    raw,        \* the argument of the call in progress, None outside a call
    scan,       \* what the call in progress reads off raw, None outside a call
    change,     \* the Change returned by the call, None before it returns
    pre,        \* the CoreState at entry of the call that returned
    trace,      \* what the call did to the CoreState, in program order
    dur_sum,    \* Some(sum of the Duration values, ms) while every line so
                \* far was a Duration report without rollback, else None
    facts,      \* what the properties say about raw, None outside a call
    app,        \* the fields of DhjcApp other than core
    io,         \* the reader threads and the channels between them and the UI
    hist,       \* what was sent into and taken out of the line channel
    instant,    \* the reading of the monotonic clock (Instant::now), seconds
    ui_pc       \* where DhjcApp::update stands: "recv" or "buttons"

vars ==
    << core, pc, raw, scan, change, pre, trace, dur_sum, facts,
       app, io, hist, instant, ui_pc >>

\* the application around the decoder
appvars == << app, io, hist, instant, ui_pc >>

\* max_plot_points as DhjcApp::new sets it, and GAP_THRESHOLD (seconds)
max_plot_points == 2000
GAP_THRESHOLD == 5

\* plot_points: its length and its newest entries (at most two of them,
\* and only entries pushed since the first state of the behaviour)
NoPlot == [ len |-> 0, newest |-> << >> ]

\* DhjcApp::new, the fields other than core
AppNew ==
    [ status |-> "Disconnected", line_rx |-> None, cmd_tx |-> None,
      last_error |-> None, start_time |-> 0, plot_points |-> NoPlot,
      last_pulse_time |-> None ]

\* no thread was spawned and no channel made yet; reads and resets count
\* the reads that returned data and the clicks on Reset
IoNew ==
    [ thread |-> << >>, lines |-> << >>, cmds |-> << >>, reads |-> 0,
      resets |-> 0 ]

\* sent, handled: what went into the line channel of the connection and
\* what update took out of it; observed: update found that channel closed;
\* pushed: what the last call of handle_incoming_line pushed on
\* plot_points; calls: the calls of handle_incoming_line so far; refused:
\* the threads that had a send fail
HistNew ==
    [ sent |-> << >>, handled |-> << >>, observed |-> FALSE,
      pushed |-> << >>, calls |-> 0, refused |-> {} ]

\* the application as DhjcApp::new leaves it
AppIdle ==
    /\ app = AppNew
    /\ io = IoNew
    /\ hist = HistNew
    /\ instant = 0
    /\ ui_pc = "recv"

Init ==
    /\ core = CoreNew
    /\ pc = "idle"
    /\ raw = None
    /\ scan = None
    /\ change = None
    /\ pre = None
    /\ trace = << >>
    /\ dur_sum = Some(0)
    /\ facts = None
    /\ AppIdle

\* the Duration rule, if the line fires it, keeps active_time_s in bounds
WithinBounds(s, sc) ==
    (~sc.empty /\ ~sc.reset /\ ~sc.live /\ IsSome(sc.duration))
        => (s.active_time_s + (Unwrap(sc.duration) \div 1000))
               \in (-MaxActive)..MaxActive

\* the caller enters process_line with a line
Call(line, sc, fc) ==
    /\ pc = "idle"
    /\ WithinBounds(core, sc)
    /\ pc' = "called"
    /\ raw' = Some(line)
    /\ scan' = Some(sc)
    /\ facts' = Some(fc)
    /\ UNCHANGED << core, change, pre, trace, dur_sum >>
    /\ UNCHANGED appvars

\* a Duration report that triggers no rollback
DurationLine(sc, ch) ==
    ~sc.reset /\ ~sc.live /\ IsSome(sc.duration) /\ ~ch.session_reset

\* the body of process_line
process_line ==
    /\ pc = "called"
    /\ \E now \in Clock :
         LET sc == Unwrap(scan)
             r == ProcessLine(core, sc, now)
         IN  /\ core' = r.core
             /\ change' = Some(r.change)
             /\ trace' = r.trace
             /\ dur_sum' = IF IsSome(dur_sum) /\ DurationLine(sc, r.change)
                           THEN Some(Unwrap(dur_sum) + Unwrap(sc.duration))
                           ELSE None
    /\ pre' = Some(core)
    /\ pc' = "returned"
    /\ UNCHANGED << raw, scan, facts >>
    /\ UNCHANGED appvars

\* the caller takes the Change
Return ==
    /\ pc = "returned"
    /\ pc' = "idle"
    /\ raw' = None
    /\ scan' = None
    /\ facts' = None
    /\ change' = None
    /\ pre' = None
    /\ trace' = << >>
    /\ UNCHANGED << core, dur_sum >>
    /\ UNCHANGED appvars

Next ==
    \/ \E ls \in LineScans : Call(ls[1], ls[2], ls[3])
    \/ process_line
    \/ Return

Spec == Init /\ [][Next]_vars

----------------------------------------------------------------------------
(* The numeric token extractors on their own: find_int_after and           *)
(* find_double_after applied to every text of at most MaxTokens tokens.    *)
(* raw holds the source string, scan what the two functions return.        *)

MaxTokens == 5

\* the keyword the extractors are called with
ScanKey == KEY_Total

\* what the texts are made of: the keyword, digits, signs, the point, filler
Tokens == { ScanKey, <<"7">>, <<"0">>, <<"-">>, <<"+">>, <<".">>, <<" ">> }

RECURSIVE Texts(_)
Texts(n) ==
    IF n = 0 THEN { << >> }
    ELSE LET shorter == Texts(n - 1)
         IN  shorter \cup { t \o k : t \in shorter, k \in Tokens }

\* the source strings tried
Sources == Texts(MaxTokens)

ScanInit ==
    /\ core = CoreNew
    /\ pc = "idle"
    /\ raw = None
    /\ scan = None
    /\ change = None
    /\ pre = None
    /\ trace = << >>
    /\ dur_sum = None
    /\ facts = None
    /\ AppIdle

\* a caller picks the source string
ScanCall(src) ==
    /\ pc = "idle"
    /\ pc' = "scanning"
    /\ raw' = Some(src)
    /\ scan' = None
    /\ UNCHANGED << core, change, pre, trace, dur_sum, facts >>
    /\ UNCHANGED appvars

\* find_int_after and find_double_after run on it
find_after ==
    /\ pc = "scanning"
    /\ pc' = "scanned"
    /\ scan' = Some([ int |-> find_int_after(Unwrap(raw), ScanKey),
                      double |-> find_double_after(Unwrap(raw), ScanKey),
                      literal |-> DoubleLiteral(Unwrap(raw), ScanKey) ])
    /\ UNCHANGED << core, raw, change, pre, trace, dur_sum, facts >>
    /\ UNCHANGED appvars

\* the caller takes the results
ScanReturn ==
    /\ pc = "scanned"
    /\ pc' = "idle"
    /\ raw' = None
    /\ scan' = None
    /\ UNCHANGED << core, change, pre, trace, dur_sum, facts >>
    /\ UNCHANGED appvars

ScanNext ==
    \/ pc = "idle" /\ \E src \in Sources : ScanCall(src)
    \/ find_after
    \/ ScanReturn

ScanSpec == ScanInit /\ [][ScanNext]_vars

----------------------------------------------------------------------------
(* The application around the decoder: what the reader threads put into    *)
(* the line channel and what DhjcApp::handle_incoming_line does with it.   *)
(* Fields of DhjcApp that only feed the display (log_lines, logger,        *)
(* last_live_line, the wait estimate) are left out.                        *)

\* the byte loop of a reader thread on the bytes of one read: the lines it
\* frames, in order, and what stays in line_buf
RECURSIVE Frame(_, _, _)
Frame(bytes, line_buf, lines) ==
    IF bytes = << >> THEN [ lines |-> lines, line_buf |-> line_buf ]
    ELSE LET b == Head(bytes) IN
         IF b = "\r" \/ b = "\n"
         THEN LET line == TrimEnd(line_buf) IN
              Frame(Tail(bytes), << >>,
                    IF line # << >> THEN Append(lines, line) ELSE lines)
         ELSE Frame(Tail(bytes), Append(line_buf, b), lines)

\* what one read of the device can deliver
CHUNK_Pair ==
    MARK_Live \o F_Total5 \o <<"\r", "\n">> \o MARK_Live \o F_Total3 \o <<"\n">>
CHUNK_Head == <<"\n">> \o MARK_Live
Chunks == { CHUNK_Pair, CHUNK_Head }

\* the lines the byte loop can frame from these reads
FramedLines ==
    UNION { { Frame(c1 \o c2, << >>, << >>).lines[i] :
                i \in DOMAIN Frame(c1 \o c2, << >>, << >>).lines } :
            c1 \in Chunks \cup { << >> }, c2 \in Chunks }

\* the messages a reader thread makes up itself
TAG_ERROR == <<"[","E","R","R","O","R","]">>
MSG_OpenFailed == TAG_ERROR \o <<" ","o","p","e","n">>
MSG_WriteFailed == TAG_ERROR \o <<" ","w","r","i","t","e">>
MSG_ReadFailed == TAG_ERROR \o <<" ","r","e","a","d">>
MSG_Warn == <<"[","W","A","R","N","]"," ","t","i","m","e","o","u","t">>
TransportMessages == { MSG_OpenFailed, MSG_WriteFailed, MSG_ReadFailed, MSG_Warn }

\* str::starts_with
StartsWith(text, prefix) ==
    Len(text) >= Len(prefix) /\ SubSeq(text, 1, Len(prefix)) = prefix

\* every text that can come out of the line channel, with what process_line
\* reads off it
AppTexts == FramedLines \cup TransportMessages
AppScans == { << text, Scanned(text) >> : text \in AppTexts }

\* a sample of plot_points: y is None for f64::NAN
Sample(t, y) == [ t |-> t, y |-> y ]

\* Vec::push on plot_points
Push(plot, sample) ==
    [ len |-> plot.len + 1,
      newest |-> IF Len(plot.newest) < 2 THEN Append(plot.newest, sample)
                 ELSE << plot.newest[2], sample >> ]

RECURSIVE PushAll(_, _)
PushAll(plot, samples) ==
    IF samples = << >> THEN plot
    ELSE PushAll(Push(plot, Head(samples)), Tail(samples))

\* the drain of the oldest entries above max_plot_points
Drain(plot) ==
    IF plot.len > max_plot_points
    THEN [ plot EXCEPT !.len = max_plot_points ]
    ELSE plot

\* the readings of the monotonic clock one call of handle_incoming_line
\* makes (lines 629, 633, 643, 660), the clock standing at i when it is
\* entered: the thread may be held up for Stall seconds between two of them
Stall == 6
MaxInstant == 9
ClockReads(i) ==
    { at \in {i, i + Stall} \X {i, i + Stall} \X {i, i + Stall} \X {i, i + Stall} :
          /\ at[1] <= at[2] /\ at[2] <= at[3] /\ at[3] <= at[4]
          /\ at[4] <= MaxInstant }

HandleIncomingLine_PlotEveryChange(a, c, text, sc, now, at) ==
    LET a1 == IF StartsWith(text, TAG_ERROR)
              THEN [ a EXCEPT !.last_error = Some(text) ] ELSE a
        prev_total == c.current_total
        r == ProcessLine(c, sc, now)
        a2 == IF r.core.current_total > prev_total
              THEN [ a1 EXCEPT !.last_pulse_time = Some(at[1]) ] ELSE a1
        t == at[2] - a.start_time
        pushes == << Sample(t, Some(r.core.current_total)) >>
    IN  IF r.change.total_changed
        THEN [ app |-> [ a2 EXCEPT !.plot_points = Drain(PushAll(@, pushes)),
                                   !.last_pulse_time = Some(at[4]) ],
               core |-> r.core, change |-> r.change, trace |-> r.trace,
               pushed |-> pushes ]
        ELSE [ app |-> a2, core |-> r.core, change |-> r.change,
               trace |-> r.trace, pushed |-> << >> ]

\* DhjcApp::handle_incoming_line as a function of the application (a), the
\* CoreState (c), the line (text, and sc read off it by process_line), the
\* wall clock (now) and the readings of the monotonic clock (at).  pushed
\* is what the call pushes on plot_points, in order.
HandleIncomingLine(a, c, text, sc, now, at) ==
    LET a1 == IF StartsWith(text, TAG_ERROR)
              THEN [ a EXCEPT !.last_error = Some(text) ] ELSE a
        prev_total == c.current_total
        r == ProcessLine(c, sc, now)
        a2 == IF r.core.current_total > prev_total
              THEN [ a1 EXCEPT !.last_pulse_time = Some(at[1]) ] ELSE a1
        t == at[2] - a.start_time
        gap_too_long ==
            /\ IsSome(a2.last_pulse_time)
            /\ at[3] - Unwrap(a2.last_pulse_time) > GAP_THRESHOLD
        pushes ==
            (IF gap_too_long THEN << Sample(t, None) >> ELSE << >>)
              \o << Sample(t, Some(r.core.current_total)) >>
    IN  IF r.change.total_changed /\ ~(r.core.current_total < prev_total)
        THEN [ app |-> [ a2 EXCEPT !.plot_points = Drain(PushAll(@, pushes)),
                                   !.last_pulse_time = Some(at[4]) ],
               core |-> r.core, change |-> r.change, trace |-> r.trace,
               pushed |-> pushes ]
        ELSE [ app |-> a2, core |-> r.core, change |-> r.change,
               trace |-> r.trace, pushed |-> << >> ]

----------------------------------------------------------------------------
(* handle_incoming_line on its own: a caller hands it one text after the   *)
(* other while the monotonic clock runs.  raw, scan, pre, change and trace *)
(* describe the call that returned last, hist.pushed what it pushed.       *)

\* calls of handle_incoming_line made in one behaviour
MaxHandled == 4

\* seconds the clock advances between two calls
TimeStep == 3

\* plot_points outlives connections and resets of the CoreState: the
\* lengths it starts from are none and those next to max_plot_points
PlotLens == { 0, max_plot_points - 1, max_plot_points }

PlotInit ==
    /\ core = CoreNew
    /\ pc = "idle"
    /\ raw = None
    /\ scan = None
    /\ change = None
    /\ pre = None
    /\ trace = << >>
    /\ dur_sum = None
    /\ facts = None
    /\ \E n \in PlotLens : app = [ AppNew EXCEPT !.plot_points.len = n ]
    /\ io = IoNew
    /\ hist = HistNew
    /\ instant = 0
    /\ ui_pc = "recv"

\* one call of handle_incoming_line
handle_incoming_line(text, sc) ==
    /\ hist.calls < MaxHandled
    /\ \E now \in Clock, at \in ClockReads(instant) :
         LET h == HandleIncomingLine(app, core, text, sc, now, at)
         IN  /\ app' = h.app
             /\ core' = h.core
             /\ change' = Some(h.change)
             /\ trace' = h.trace
             /\ hist' = [ hist EXCEPT !.calls = @ + 1, !.pushed = h.pushed ]
             /\ instant' = at[4]
    /\ pc' = "handled"
    /\ raw' = Some(text)
    /\ scan' = Some(sc)
    /\ pre' = Some(core)
    /\ UNCHANGED << dur_sum, facts, io, ui_pc >>

\* time passes between two calls
time_passes ==
    /\ instant + TimeStep <= MaxInstant
    /\ instant' = instant + TimeStep
    /\ UNCHANGED << core, pc, raw, scan, change, pre, trace, dur_sum, facts,
                    app, io, hist, ui_pc >>

PlotNext ==
    \/ \E ts \in AppScans : handle_incoming_line(ts[1], ts[2])
    \/ time_passes

PlotSpec == PlotInit /\ [][PlotNext]_vars

----------------------------------------------------------------------------
(* The connection: the reader thread started by connect, the two channels  *)
(* between it and the window, and DhjcApp::update, which empties the line  *)
(* channel into handle_incoming_line and then serves the buttons.  A       *)
(* channel is a queue in io.lines or io.cmds; its ends are alive as long   *)
(* as their owners hold them: the line receiver and the command sender     *)
(* are held by the fields line_rx and cmd_tx of the window, the line       *)
(* sender and the command receiver by the thread until it ends.  The       *)
(* clocks stand still in this specification.  A serial thread does what   *)
(* a TCP thread does, apart from the warning after the open, so the        *)
(* threads are not told apart by their mode.                               *)

\* connect starts at most MaxConn threads, the threads read data at most
\* MaxReads times in all, and Reset is clicked at most MaxCmds times
MaxConn == 2
MaxReads == 1
MaxCmds == 1

\* the command of send_reset
CMD_Reset == <<"R", "\n">>

\* what connect puts into last_error when the port or host field is blank
MSG_Blank == <<"n", "o", " ", "p", "o", "r", "t">>

\* mpsc try_recv that takes the newest message
TryRecv_Newest(queue, senders) ==
    IF queue # << >>
    THEN [ result |-> "Ok", value |-> Some(queue[Len(queue)]),
           rest |-> SubSeq(queue, 1, Len(queue) - 1) ]
    ELSE [ result |-> IF senders THEN "Empty" ELSE "Disconnected",
           value |-> None, rest |-> queue ]

\* mpsc try_recv that reports a closed channel before what is buffered
TryRecv_ClosedFirst(queue, senders) ==
    IF ~senders
    THEN [ result |-> "Disconnected", value |-> None, rest |-> queue ]
    ELSE IF queue # << >>
    THEN [ result |-> "Ok", value |-> Some(Head(queue)), rest |-> Tail(queue) ]
    ELSE [ result |-> "Empty", value |-> None, rest |-> queue ]

\* mpsc try_recv that never reports a closed channel
TryRecv_NeverClosed(queue, senders) ==
    IF queue # << >>
    THEN [ result |-> "Ok", value |-> Some(Head(queue)), rest |-> Tail(queue) ]
    ELSE [ result |-> "Empty", value |-> None, rest |-> queue ]

\* Receiver::try_recv on a channel holding queue: the oldest buffered
\* message, else Empty while a sender is alive, else Disconnected
TryRecv(queue, senders) ==
    IF queue # << >>
    THEN [ result |-> "Ok", value |-> Some(Head(queue)), rest |-> Tail(queue) ]
    ELSE [ result |-> IF senders THEN "Empty" ELSE "Disconnected",
           value |-> None, rest |-> queue ]

\* a reader thread that sends on whatever line channel is the newest
tx_line_Newest(i, c) == Len(i.lines)

\* the line channel thread c sends on: the sender moved into it by connect
tx_line(i, c) == i.thread[c].tx_line

\* the command channel thread c receives on
rx_cmd(i, c) == i.thread[c].rx_cmd

\* the reader thread of a connection, about to open its device
ThreadNew(k) ==
    [ pc |-> "open", line_buf |-> << >>, tx_line |-> k, rx_cmd |-> k,
      eof |-> FALSE ]

\* thread c returns: its locals are gone, and so is what its command
\* receiver still buffered
Ended(i, c) ==
    [ i EXCEPT !.thread[c] = [ @ EXCEPT !.pc = "done", !.line_buf = << >>,
                                        !.eof = FALSE ],
               !.cmds[i.thread[c].rx_cmd] = << >> ]

\* a message in the line channel: its text, the thread that sent it and
\* whether it was framed from the device bytes or made up by the thread
Entry(text, c, origin) == [ text |-> text, thread |-> c, origin |-> origin ]

RECURSIVE Entries(_, _, _)
Entries(texts, c, origin) ==
    IF texts = << >> THEN << >>
    ELSE << Entry(Head(texts), c, origin) >> \o Entries(Tail(texts), c, origin)

\* the receiver of line channel k is alive: the window holds it
ReceiverAlive(a, k) == a.line_rx = Some(k)

\* some sender of line channel k is alive: a thread that has not ended
SenderAlive(i, k) ==
    \E c \in DOMAIN i.thread : i.thread[c].pc # "done" /\ tx_line(i, c) = k

\* Sender::send of thread c for each of entries: it fails, and nothing is
\* buffered, once the receiver is dropped
Send(a, i, h, c, entries) ==
    LET k == tx_line(i, c) IN
    IF ReceiverAlive(a, k)
    THEN [ ok |-> TRUE,
           lines |-> [ i.lines EXCEPT ![k] = @ \o entries ],
           hist |-> [ h EXCEPT !.sent = @ \o entries ] ]
    ELSE [ ok |-> FALSE, lines |-> i.lines,
           hist |-> IF entries = << >> THEN h
                    ELSE [ h EXCEPT !.refused = @ \cup { c } ] ]

\* what belongs to the decoder and to the last call of process_line
decoder == << core, pc, raw, scan, change, pre, trace, dur_sum, facts >>

\* the last call of handle_incoming_line is no longer looked at
Forgotten ==
    /\ pc' = "idle"
    /\ raw' = None
    /\ scan' = None
    /\ change' = None
    /\ pre' = None
    /\ trace' = << >>
    /\ UNCHANGED << core, dur_sum, facts >>

AppInit ==
    /\ core = CoreNew
    /\ pc = "idle"
    /\ raw = None
    /\ scan = None
    /\ change = None
    /\ pre = None
    /\ trace = << >>
    /\ dur_sum = None
    /\ facts = None
    /\ AppIdle

\* the thread opens its port or socket
thread_open_ok(c) ==
    /\ io.thread[c].pc = "open"
    /\ io' = [ io EXCEPT !.thread[c].pc = "cmd" ]
    /\ UNCHANGED << app, hist, instant, ui_pc >>
    /\ UNCHANGED decoder

\* set_read_timeout fails on the socket just opened
thread_open_warn(c) ==
    /\ io.thread[c].pc = "open"
    /\ LET s == Send(app, io, hist, c, << Entry(MSG_Warn, c, "thread") >>)
       IN  /\ io' = [ io EXCEPT !.thread[c].pc = "cmd", !.lines = s.lines ]
           /\ hist' = s.hist
    /\ UNCHANGED << app, instant, ui_pc >>
    /\ UNCHANGED decoder

\* the port or socket cannot be opened
thread_open_failed(c) ==
    /\ io.thread[c].pc = "open"
    /\ LET s == Send(app, io, hist, c, << Entry(MSG_OpenFailed, c, "thread") >>)
       IN  /\ io' = [ Ended(io, c) EXCEPT !.lines = s.lines ]
           /\ hist' = s.hist
    /\ UNCHANGED << app, instant, ui_pc >>
    /\ UNCHANGED decoder

\* rx_cmd.try_recv finds a command and writes it
thread_cmd_written(c) ==
    /\ io.thread[c].pc = "cmd"
    /\ LET k == rx_cmd(io, c)
           r == TryRecv(io.cmds[k], app.cmd_tx = Some(k))
       IN  /\ r.result = "Ok"
           /\ io' = [ io EXCEPT !.thread[c].pc = "read", !.cmds[k] = r.rest ]
    /\ UNCHANGED << app, hist, instant, ui_pc >>
    /\ UNCHANGED decoder

\* rx_cmd.try_recv finds a command and write_all fails
thread_cmd_failed(c) ==
    /\ io.thread[c].pc = "cmd"
    /\ LET k == rx_cmd(io, c)
           r == TryRecv(io.cmds[k], app.cmd_tx = Some(k))
           s == Send(app, io, hist, c, << Entry(MSG_WriteFailed, c, "thread") >>)
       IN  /\ r.result = "Ok"
           /\ io' = [ Ended(io, c) EXCEPT !.lines = s.lines ]
           /\ hist' = s.hist
    /\ UNCHANGED << app, instant, ui_pc >>
    /\ UNCHANGED decoder

\* rx_cmd.try_recv finds nothing
thread_cmd_empty(c) ==
    /\ io.thread[c].pc = "cmd"
    /\ LET k == rx_cmd(io, c)
       IN  TryRecv(io.cmds[k], app.cmd_tx = Some(k)).result = "Empty"
    /\ io' = [ io EXCEPT !.thread[c].pc = "read" ]
    /\ UNCHANGED << app, hist, instant, ui_pc >>
    /\ UNCHANGED decoder

\* rx_cmd.try_recv finds the command channel closed
thread_cmd_closed(c) ==
    /\ io.thread[c].pc = "cmd"
    /\ LET k == rx_cmd(io, c)
       IN  TryRecv(io.cmds[k], app.cmd_tx = Some(k)).result = "Disconnected"
    /\ io' = Ended(io, c)
    /\ UNCHANGED << app, hist, instant, ui_pc >>
    /\ UNCHANGED decoder

\* read returns bytes: the byte loop frames and sends the lines, and
\* returns from the thread at the first send that fails
thread_read_data(c, bytes) ==
    /\ io.thread[c].pc = "read"
    /\ ~io.thread[c].eof
    /\ io.reads < MaxReads
    /\ LET f == Frame(bytes, io.thread[c].line_buf, << >>)
           s == Send(app, io, hist, c, Entries(f.lines, c, "device"))
       IN  /\ io' = IF f.lines # << >> /\ ~s.ok
                    THEN [ Ended(io, c) EXCEPT !.reads = @ + 1 ]
                    ELSE [ io EXCEPT !.thread[c].pc = "cmd",
                                     !.thread[c].line_buf = f.line_buf,
                                     !.lines = s.lines, !.reads = @ + 1 ]
           /\ hist' = s.hist
    /\ UNCHANGED << app, instant, ui_pc >>
    /\ UNCHANGED decoder

\* read runs into its timeout, or returns no byte because the stream is
\* at its end
thread_read_nothing(c) ==
    /\ io.thread[c].pc = "read"
    /\ io' = [ io EXCEPT !.thread[c].pc = "cmd" ]
    /\ UNCHANGED << app, hist, instant, ui_pc >>
    /\ UNCHANGED decoder

\* the remote end has closed the stream: read returns no byte, now and
\* from now on
thread_read_eof(c) ==
    /\ io.thread[c].pc = "read"
    /\ ~io.thread[c].eof
    /\ io' = [ io EXCEPT !.thread[c].pc = "cmd", !.thread[c].eof = TRUE ]
    /\ UNCHANGED << app, hist, instant, ui_pc >>
    /\ UNCHANGED decoder

\* read fails with another error
thread_read_failed(c) ==
    /\ io.thread[c].pc = "read"
    /\ ~io.thread[c].eof
    /\ LET s == Send(app, io, hist, c, << Entry(MSG_ReadFailed, c, "thread") >>)
       IN  /\ io' = [ Ended(io, c) EXCEPT !.lines = s.lines ]
           /\ hist' = s.hist
    /\ UNCHANGED << app, instant, ui_pc >>
    /\ UNCHANGED decoder

\* a step of the reader thread c, whichever it is
thread_step(c) ==
    \/ thread_open_ok(c)
    \/ thread_open_warn(c)
    \/ thread_open_failed(c)
    \/ thread_cmd_written(c)
    \/ thread_cmd_failed(c)
    \/ thread_cmd_empty(c)
    \/ thread_cmd_closed(c)
    \/ \E bytes \in Chunks : thread_read_data(c, bytes)
    \/ thread_read_nothing(c)
    \/ thread_read_eof(c)
    \/ thread_read_failed(c)

\* update: rx.try_recv returns a line, which goes to handle_incoming_line
update_recv_line ==
    /\ ui_pc = "recv"
    /\ IsSome(app.line_rx)
    /\ LET k == Unwrap(app.line_rx)
           r == TryRecv(io.lines[k], SenderAlive(io, k))
       IN  /\ r.result = "Ok"
           /\ \E e \in { Unwrap(r.value) } :
              \E sc \in { Scanned(e.text) } :
              \E h \in { HandleIncomingLine(app, core, e.text, sc, MaxClock,
                              << instant, instant, instant, instant >>) } :
                  /\ app' = h.app
                  /\ core' = h.core
                  /\ change' = Some(h.change)
                  /\ trace' = h.trace
                  /\ hist' = [ hist EXCEPT
                         !.handled = Append(@,
                             [ text |-> e.text, thread |-> e.thread,
                               origin |-> e.origin,
                               during |-> Len(io.thread) ]),
                         !.pushed = h.pushed,
                         !.calls = @ + 1 ]
                  /\ raw' = Some(e.text)
                  /\ scan' = Some(sc)
           /\ io' = [ io EXCEPT !.lines[k] = r.rest ]
    /\ pc' = "handled"
    /\ pre' = Some(core)
    /\ UNCHANGED << dur_sum, facts, instant, ui_pc >>

\* update: rx.try_recv finds nothing; the receiver is put back
update_recv_empty ==
    /\ ui_pc = "recv"
    /\ IsSome(app.line_rx)
    /\ LET k == Unwrap(app.line_rx)
       IN  TryRecv(io.lines[k], SenderAlive(io, k)).result = "Empty"
    /\ ui_pc' = "buttons"
    /\ Forgotten
    /\ hist' = [ hist EXCEPT !.pushed = << >> ]
    /\ UNCHANGED << app, io, instant >>

\* update: rx.try_recv finds the line channel closed; the receiver is not
\* put back
update_recv_closed ==
    /\ ui_pc = "recv"
    /\ IsSome(app.line_rx)
    /\ LET k == Unwrap(app.line_rx)
       IN  /\ TryRecv(io.lines[k], SenderAlive(io, k)).result = "Disconnected"
           /\ hist' = [ hist EXCEPT !.observed = TRUE, !.pushed = << >> ]
    /\ app' = [ app EXCEPT !.status = "Disconnected", !.line_rx = None,
                           !.cmd_tx = None ]
    /\ ui_pc' = "buttons"
    /\ Forgotten
    /\ UNCHANGED << io, instant >>

\* update: there is no receiver
update_no_receiver ==
    /\ ui_pc = "recv"
    /\ ~IsSome(app.line_rx)
    /\ ui_pc' = "buttons"
    /\ Forgotten
    /\ hist' = [ hist EXCEPT !.pushed = << >> ]
    /\ UNCHANGED << app, io, instant >>

\* connect with the port or host field left blank
connect_blank ==
    /\ ui_pc = "buttons"
    /\ app.status = "Disconnected"
    /\ app' = [ app EXCEPT !.last_error = Some(MSG_Blank) ]
    /\ ui_pc' = "recv"
    /\ UNCHANGED << io, hist, instant >>
    /\ UNCHANGED decoder

\* connect: two new channels and a thread holding one end of each
connect ==
    /\ ui_pc = "buttons"
    /\ app.status = "Disconnected"
    /\ Len(io.thread) < MaxConn
    /\ LET k == Len(io.lines) + 1
       IN  /\ io' = [ io EXCEPT !.thread = Append(@, ThreadNew(k)),
                                !.lines = Append(@, << >>),
                                !.cmds = Append(@, << >>) ]
           /\ hist' = HistNew
           /\ app' = [ app EXCEPT !.status = "Connected", !.line_rx = Some(k),
                                  !.cmd_tx = Some(k), !.last_error = None ]
    /\ ui_pc' = "recv"
    /\ UNCHANGED instant
    /\ UNCHANGED decoder

\* disconnect: the receiver is dropped with what it still buffered
disconnect ==
    /\ ui_pc = "buttons"
    /\ app.status = "Connected"
    /\ app' = [ app EXCEPT !.status = "Disconnected", !.line_rx = None,
                           !.cmd_tx = None ]
    /\ io' = [ io EXCEPT !.lines[Unwrap(app.line_rx)] = << >> ]
    /\ hist' = HistNew
    /\ ui_pc' = "recv"
    /\ UNCHANGED instant
    /\ UNCHANGED decoder

\* the Reset button: send_reset, then full_reset
click_reset ==
    /\ ui_pc = "buttons"
    /\ io.resets < MaxCmds
    /\ io' = IF IsSome(app.cmd_tx) /\ io.thread[Unwrap(app.cmd_tx)].pc # "done"
             THEN [ io EXCEPT !.cmds[Unwrap(app.cmd_tx)] = Append(@, CMD_Reset),
                              !.resets = @ + 1 ]
             ELSE [ io EXCEPT !.resets = @ + 1 ]
    /\ app' = [ app EXCEPT !.last_error = None, !.start_time = instant,
                           !.plot_points = NoPlot, !.last_pulse_time = None ]
    /\ core' = CoreNew
    /\ ui_pc' = "recv"
    /\ UNCHANGED << hist, instant >>
    /\ UNCHANGED << pc, raw, scan, change, pre, trace, dur_sum, facts >>

\* no button is clicked in this frame
no_click ==
    /\ ui_pc = "buttons"
    /\ ui_pc' = "recv"
    /\ UNCHANGED << app, io, hist, instant >>
    /\ UNCHANGED decoder

\* a step of the window, whichever it is
ui_step ==
    \/ update_recv_line
    \/ update_recv_empty
    \/ update_recv_closed
    \/ update_no_receiver
    \/ connect_blank
    \/ connect
    \/ disconnect
    \/ click_reset
    \/ no_click

Threads == 1..MaxConn

AppNext ==
    \/ \E c \in DOMAIN io.thread : thread_open_ok(c)
    \/ \E c \in DOMAIN io.thread : thread_open_warn(c)
    \/ \E c \in DOMAIN io.thread : thread_open_failed(c)
    \/ \E c \in DOMAIN io.thread : thread_cmd_written(c)
    \/ \E c \in DOMAIN io.thread : thread_cmd_failed(c)
    \/ \E c \in DOMAIN io.thread : thread_cmd_empty(c)
    \/ \E c \in DOMAIN io.thread : thread_cmd_closed(c)
    \/ \E c \in DOMAIN io.thread, bytes \in Chunks : thread_read_data(c, bytes)
    \/ \E c \in DOMAIN io.thread : thread_read_nothing(c)
    \/ \E c \in DOMAIN io.thread : thread_read_eof(c)
    \/ \E c \in DOMAIN io.thread : thread_read_failed(c)
    \/ update_recv_line
    \/ update_recv_empty
    \/ update_recv_closed
    \/ update_no_receiver
    \/ connect_blank
    \/ connect
    \/ disconnect
    \/ click_reset
    \/ no_click

AppSpec == AppInit /\ [][AppNext]_vars

\* Every thread that has not ended keeps running, and the window keeps
\* repainting (request_repaint_after at the end of update).  A step of the
\* window is possible in every state, so that weak fairness of ui_step,
\* WF_vars(ui_step), is the same as taking it again and again.
AppFair ==
    /\ AppSpec
    /\ \A c \in Threads : WF_vars(c \in DOMAIN io.thread /\ thread_step(c))
    /\ []<><<ui_step>>_vars

----------------------------------------------------------------------------
(* Properties of the decoder.  They are read in the states where a call    *)
(* of process_line has just returned: pre is the CoreState at entry, raw   *)
(* the line, change the returned Change, core the CoreState at exit.       *)

Returned == pc = "returned"
Line == Unwrap(raw)
Sc == Unwrap(scan)
Facts == Unwrap(facts)
Ch == Unwrap(change)
Pre == Unwrap(pre)

\* positions of the trace entries of one kind
TraceIdx(tag) == { i \in DOMAIN trace : trace[i][1] = tag }

\* a live line and a report line, without reset marker
IsLiveLine == ~Sc.empty /\ ~Sc.reset /\ Sc.live
IsReportLine == ~Sc.empty /\ ~Sc.reset /\ ~Sc.live

\* the value the line feeds to the total update: the Total: field of a
\* live line, the Grand Total field of a report line
NewTotal ==
    IF IsLiveLine THEN Sc.total
    ELSE IF IsReportLine THEN Sc.grand_total
    ELSE None

\* stage, active time and source as the rules ahead of the total update
\* left them
StageBeforeTotal ==
    IF TraceIdx("stage") = {} THEN Pre.stage
    ELSE trace[CHOOSE i \in TraceIdx("stage") : TRUE][2]
ActiveBeforeTotal ==
    IF TraceIdx("active") = {} THEN Pre.active_time_s
    ELSE trace[CHOOSE i \in TraceIdx("active") : TRUE][2]
SourceBeforeTotal ==
    IF TraceIdx("active") = {} THEN Pre.active_from_mcu
    ELSE trace[CHOOSE i \in TraceIdx("active") : TRUE][3]

\* C1: stage, current_total and active_time_s are never negative, whatever
\* lines were processed.
C1_NonNegative ==
    /\ core.stage >= 0
    /\ core.current_total >= 0
    /\ core.active_time_s >= 0

\* C2: a line with the reset marker restores the initial CoreState, returns
\* exactly system_reset and session_reset, and applies no other rule.
C2_SystemReset ==
    (Returned /\ Sc.reset) =>
        /\ core = CoreNew
        /\ Ch = [ ChangeDefault EXCEPT !.system_reset = TRUE,
                                       !.session_reset = TRUE ]
        /\ trace = << <<"reset">> >>

C2_Witness ==
    /\ Returned /\ Sc.reset /\ Sc.live /\ IsSome(Sc.stage)
    /\ Pre.stage # 0 /\ Pre.current_total # 0 /\ Pre.active_time_s # 0
    /\ Pre.last_timestamp # None

\* the line is empty or holds only control bytes and whitespace
OnlyBlank(line) ==
    \A i \in 1..Len(line) : line[i] \in ControlBytes \cup {" ", "\t"}

\* C3: a line that is empty or sanitizes to empty returns the all-false
\* Change and leaves the CoreState as it was.
C3_BlankLine ==
    (Returned /\ OnlyBlank(Line)) =>
        /\ Ch = ChangeDefault
        /\ core = Pre
        /\ trace = << >>

C3_Witness ==
    /\ Returned /\ OnlyBlank(Line) /\ Len(Line) > 1
    /\ Pre.stage # 0 /\ Pre.current_total # 0 /\ Pre.last_timestamp # None

\* C4: on a live line stage is written, with the integer after Stage:, and
\* stage_changed raised, exactly when that integer is present and differs
\* from the stage at entry; the spec's example line gives stage 3, total
\* 120, a timestamp and an untouched active time.
C4_StageRule ==
    (Returned /\ IsLiveLine) =>
        LET hit == IsSome(Sc.stage) /\ Unwrap(Sc.stage) # Pre.stage IN
        /\ Ch.stage_changed = hit
        /\ hit => trace[1] = <<"stage", Unwrap(Sc.stage)>>
        /\ ~hit => TraceIdx("stage") = {}
        /\ ~Ch.session_reset =>
              core.stage = IF IsSome(Sc.stage) THEN Unwrap(Sc.stage)
                           ELSE Pre.stage
        /\ (Line = LINE_LiveExample /\ Pre = CoreNew) =>
              /\ core.stage = 3 /\ Ch.stage_changed
              /\ core.current_total = 120 /\ Ch.total_changed
              /\ IsSome(core.last_timestamp)
              /\ core.active_time_s = Pre.active_time_s

C4_Witness ==
    /\ Returned /\ Line = LINE_LiveExample /\ Pre = CoreNew
    /\ core.stage = 3

\* C5: a new total below current_total resets the session, keeps the new
\* total, raises session_reset and total_changed and sets no timestamp.
C5_Rollback ==
    (Returned /\ IsSome(NewTotal) /\ Unwrap(NewTotal) < Pre.current_total) =>
        /\ core = [ CoreNew EXCEPT !.current_total = Unwrap(NewTotal) ]
        /\ Ch.session_reset /\ Ch.total_changed
        /\ TraceIdx("timestamp") = {}

C5_Witness ==
    /\ Returned /\ IsReportLine
    /\ IsSome(NewTotal) /\ Unwrap(NewTotal) < Pre.current_total
    /\ Pre.stage # 0 /\ Pre.active_time_s # 0 /\ Pre.active_from_mcu
    /\ Pre.last_timestamp # None

\* C6: a new total above current_total is stored, the clock is read into
\* last_timestamp, total_changed is raised, session_reset is not, and
\* stage, active time and source stay as they were before the update.
C6_Increase ==
    (Returned /\ IsSome(NewTotal) /\ Unwrap(NewTotal) > Pre.current_total) =>
        /\ core.current_total = Unwrap(NewTotal)
        /\ \E t \in Clock : /\ trace[Len(trace)] = <<"timestamp", t>>
                            /\ core.last_timestamp = Some(t)
        /\ Ch.total_changed /\ ~Ch.session_reset
        /\ core.stage = StageBeforeTotal
        /\ core.active_time_s = ActiveBeforeTotal
        /\ core.active_from_mcu = SourceBeforeTotal

C6_Witness ==
    /\ Returned /\ IsSome(NewTotal) /\ Unwrap(NewTotal) > Pre.current_total
    /\ IsSome(Pre.last_timestamp) /\ core.last_timestamp # Pre.last_timestamp
    /\ Pre.stage # 0 /\ Ch.active_changed /\ core.active_from_mcu

\* C7: a new total equal to current_total changes nothing and raises
\* neither total_changed nor session_reset.
C7_Equal ==
    (Returned /\ IsSome(NewTotal) /\ Unwrap(NewTotal) = Pre.current_total) =>
        /\ core.current_total = Pre.current_total
        /\ core.last_timestamp = Pre.last_timestamp
        /\ core.stage = StageBeforeTotal
        /\ core.active_time_s = ActiveBeforeTotal
        /\ core.active_from_mcu = SourceBeforeTotal
        /\ ~Ch.total_changed /\ ~Ch.session_reset
        /\ trace[Len(trace)] = <<"update_total", Unwrap(NewTotal)>>

C7_Witness ==
    /\ Returned /\ IsSome(NewTotal) /\ Unwrap(NewTotal) = Pre.current_total
    /\ Pre.current_total # 0 /\ IsSome(Pre.last_timestamp)
    /\ Ch.stage_changed

\* C8: on a live line the stage is written before the total is fed to the
\* total update, so a rollback on the same line leaves stage 0 whatever
\* stage the line names, and stage_changed tells the comparison made
\* before the reset.
C8_RollbackOrder ==
    (Returned /\ IsLiveLine /\ IsSome(Sc.total)
       /\ Unwrap(Sc.total) < Pre.current_total) =>
        /\ core.stage = 0
        /\ Ch.session_reset /\ Ch.total_changed
        /\ Ch.stage_changed = (IsSome(Sc.stage) /\ Unwrap(Sc.stage) # Pre.stage)
        /\ \A i \in TraceIdx("stage"), j \in TraceIdx("update_total") : i < j
        /\ (Line = LINE_Rollback /\ Pre.stage = 1 /\ Pre.current_total = 5) =>
              /\ core.stage = 0 /\ core.current_total = 3
              /\ ~Ch.stage_changed

C8_Witness ==
    /\ Returned /\ IsLiveLine /\ IsSome(Sc.total)
    /\ Unwrap(Sc.total) < Pre.current_total
    /\ IsSome(Sc.stage) /\ Unwrap(Sc.stage) > 0
    /\ Ch.stage_changed /\ core.stage = 0

\* C9 as stated: when session_reset is returned, nothing the line carries
\* (Stage, Duration, Active Time, total) was written ahead of the reset.
C9_ResetBeforeAnyWrite ==
    (Returned /\ Ch.session_reset) =>
        \A i \in TraceIdx("reset") :
            \A j \in 1..(i - 1) : trace[j][1] \notin {"stage", "active", "total"}

\* C9 as amended: when session_reset is returned, the reset comes before
\* the write of the new total and after every write of stage or active
\* time made for the line, so the call ends with stage 0, active time 0,
\* source Derived and no timestamp.
C9_ResetBeforeTotal ==
    (Returned /\ Ch.session_reset) =>
        /\ TraceIdx("reset") # {}
        /\ \A i \in TraceIdx("reset") :
              /\ \A j \in TraceIdx("total") : i < j
              /\ \A j \in TraceIdx("stage") \cup TraceIdx("active") : j < i
        /\ TraceIdx("timestamp") = {}
        /\ core.stage = 0 /\ core.active_time_s = 0
        /\ ~core.active_from_mcu /\ core.last_timestamp = None
        /\ core.current_total =
              IF TraceIdx("total") = {} THEN 0 ELSE Unwrap(NewTotal)

C9_Witness ==
    /\ Returned /\ Ch.session_reset /\ ~Ch.system_reset
    /\ TraceIdx("active") # {} /\ core.current_total # 0
    /\ Pre.last_timestamp # None

C11_ActiveTimeOverwrite ==
    (Returned /\ IsReportLine /\ ~IsSome(Sc.duration)
              /\ IsSome(Sc.active_time) /\ ~Ch.session_reset) =>
        /\ core.active_time_s = Unwrap(Sc.active_time)
        /\ core.active_from_mcu
        /\ Ch.active_changed

C11_Witness ==
    /\ Returned /\ IsReportLine /\ ~IsSome(Sc.duration)
    /\ IsSome(Sc.active_time) /\ ~Ch.session_reset
    /\ Pre.active_time_s = 3000 /\ ~Pre.active_from_mcu
    /\ core.active_time_s = 12345

\* C12: Duration and Active Time exclude each other and Duration is tried
\* first: on a report line from which both are read only the Duration rule
\* writes the active time; a Grand Total value on the same line is still
\* fed to the total update.
C12_DurationExcludesActiveTime ==
    (Returned /\ IsReportLine /\ IsSome(Sc.duration)
              /\ IsSome(Sc.active_time)) =>
        /\ Cardinality(TraceIdx("active")) = 1
        /\ \A i \in TraceIdx("active") :
              trace[i] = << "active",
                            Pre.active_time_s + (Unwrap(Sc.duration) \div 1000),
                            FALSE >>
        /\ Ch.active_changed
        /\ ~Ch.session_reset =>
              /\ core.active_time_s =
                    Pre.active_time_s + (Unwrap(Sc.duration) \div 1000)
              /\ ~core.active_from_mcu
        /\ IsSome(Sc.grand_total) =>
              \E i \in TraceIdx("update_total") :
                  /\ trace[i][2] = Unwrap(Sc.grand_total)
                  /\ \A j \in TraceIdx("active") : j < i

C12_Witness ==
    /\ Returned /\ IsReportLine /\ IsSome(Sc.duration)
    /\ IsSome(Sc.active_time) /\ IsSome(Sc.grand_total)
    /\ Pre.active_from_mcu /\ Pre.active_time_s # 0
    /\ Unwrap(Sc.active_time) # Pre.active_time_s + (Unwrap(Sc.duration) \div 1000)
    /\ Ch.total_changed /\ ~Ch.session_reset

\* C13 as stated: Grand Total and Total: have identical semantics; for every
\* starting state, the line with one keyword substituted for the other and
\* otherwise identical leaves the same CoreState as the line itself.
C13_KeywordSubstitution ==
    (Returned /\ (IsSome(Sc.total) \/ IsSome(Sc.grand_total))) =>
        \A now \in Clock :
            ProcessLine(Pre, Sc, now).core = core
                => ProcessLine(Pre, Facts.swapped, now).core = core

\* the line is live and Total: is the only field read off it; its report
\* twin carries no Duration or Active Time value
OnlyTotalField ==
    /\ IsLiveLine /\ IsSome(Sc.total) /\ ~IsSome(Sc.stage)
    /\ ~IsSome(Sc.grand_total)
    /\ ~IsSome(Facts.twin.duration) /\ ~IsSome(Facts.twin.active_time)

\* C13 amended: Total: on a live line and Grand Total on a report line have
\* identical semantics; for every starting state and reading of the clock,
\* a live line whose only field is Total: n and the report line got from it
\* by dropping the live marker and substituting Grand Total for Total:
\* leave the same CoreState and return the same Change.
C13_LiveTotalAsGrandTotal ==
    (Returned /\ OnlyTotalField) =>
        /\ ~Facts.twin.live /\ ~Facts.twin.reset /\ ~Facts.twin.empty
        /\ \A now \in Clock :
              LET a == ProcessLine(Pre, Sc, now)
                  b == ProcessLine(Pre, Facts.twin, now)
              IN  /\ a.core = b.core
                  /\ a.change = b.change
        /\ \E now \in Clock :
              LET b == ProcessLine(Pre, Facts.twin, now)
              IN  core = b.core /\ Ch = b.change

C13_Witness ==
    /\ Returned /\ OnlyTotalField
    /\ Ch.session_reset /\ Ch.total_changed
    /\ Pre.stage # 0 /\ Pre.active_time_s # 0 /\ Pre.last_timestamp # None
    /\ core.current_total = Unwrap(Facts.twin.grand_total)

\* C14: a live line never evaluates the rules of report lines: it does not
\* raise active_changed, Duration and Active Time write neither the active
\* time nor its source, the value of a Grand Total field is not fed to the
\* total update, and active_time_s is unchanged unless Total: rolls the
\* session back.
C14_LiveSkipsReportRules ==
    (Returned /\ IsLiveLine) =>
        /\ ~Ch.active_changed
        /\ TraceIdx("active") = {}
        /\ \A i \in TraceIdx("update_total") :
              Some(trace[i][2]) = Facts.own_total
        /\ ~Ch.session_reset =>
              /\ core.active_time_s = Pre.active_time_s
              /\ core.active_from_mcu = Pre.active_from_mcu

\* C15: a line that contains the live marker in any letter case (and no
\* reset marker) is treated as a live line: the Stage: and Total: rules,
\* and only they, are applied to it.
C15_LiveAnyCase ==
    (Returned /\ Facts.live_any_case /\ ~Sc.empty /\ ~Sc.reset) =>
        \E now \in Clock :
            LET r == LiveBranch(Pre, Sc, now)
            IN  core = r.core /\ Ch = r.change

\* no value is read for the field: its keywords are absent from the line or
\* the literal after them is rejected (no digit, a lone sign, out of range)
NoStageValue == ~IsSome(Sc.stage)
NoTotalValue == ~IsSome(Sc.total) /\ ~IsSome(Sc.grand_total)
NoActiveValue == ~IsSome(Sc.duration) /\ ~IsSome(Sc.active_time)

ChangeRecords ==
    [ system_reset : BOOLEAN, stage_changed : BOOLEAN,
      active_changed : BOOLEAN, total_changed : BOOLEAN,
      session_reset : BOOLEAN ]

\* C16 as stated: process_line returns a Change for every line, and when
\* the keyword of a field is absent or its literal is malformed the field
\* is the same after the call as before it and its flag is not raised.
C16_AbsentLeavesField ==
    /\ pc = "called" => ENABLED process_line
    /\ Returned =>
          /\ Ch \in ChangeRecords
          /\ NoStageValue =>
                core.stage = Pre.stage /\ ~Ch.stage_changed
          /\ NoTotalValue =>
                core.current_total = Pre.current_total /\ ~Ch.total_changed
          /\ NoActiveValue =>
                /\ core.active_time_s = Pre.active_time_s
                /\ core.active_from_mcu = Pre.active_from_mcu
                /\ ~Ch.active_changed

\* C16 amended: process_line returns a Change for every line, and when the
\* keyword of a field is absent or its literal is malformed the flag of the
\* field is not raised and, unless the call reports session_reset (reset
\* marker, or rollback by a total on the same line), the field is the same
\* after the call as before it.
C16_AbsentLeavesFieldUnlessReset ==
    /\ pc = "called" => ENABLED process_line
    /\ Returned =>
          /\ Ch \in ChangeRecords
          /\ NoStageValue =>
                /\ ~Ch.stage_changed
                /\ ~Ch.session_reset => core.stage = Pre.stage
          /\ NoTotalValue =>
                /\ ~Ch.total_changed
                /\ ~Ch.session_reset => core.current_total = Pre.current_total
          /\ NoActiveValue =>
                /\ ~Ch.active_changed
                /\ ~Ch.session_reset =>
                      /\ core.active_time_s = Pre.active_time_s
                      /\ core.active_from_mcu = Pre.active_from_mcu

\* a Stage: literal outside the 32-bit range next to a Total: that counts
C16_Witness ==
    /\ Returned /\ Line = LINE_StageHuge
    /\ NoStageValue /\ NoActiveValue
    /\ Pre.stage = 3 /\ core.stage = 3 /\ ~Ch.stage_changed
    /\ Ch.total_changed /\ ~Ch.session_reset

----------------------------------------------------------------------------
(* Properties of the extractors, read in the states of ScanSpec where the  *)
(* two functions have returned                                             *)

Scanned2 == pc = "scanned"
Src == Unwrap(raw)
Found == Unwrap(scan)

\* the positions of src where key occurs
Occurrences(src, key) ==
    { i \in 1..(Len(src) - Len(key) + 1) :
          \A k \in 1..Len(key) : src[i + k - 1] = key[k] }

Least(S) == CHOOSE i \in S : \A j \in S : i <= j

\* value of a run of digits
RECURSIVE Decimal(_)
Decimal(ds) ==
    IF ds = << >> THEN 0
    ELSE 10 * Decimal(SubSeq(ds, 1, Len(ds) - 1)) + DigitVal(ds[Len(ds)])

\* the reference grammar of the integer extractor: the first occurrence of
\* the keyword; the first digit or sign after it starts the literal; the
\* literal runs on through digits only; the result is its value, or None
\* when the keyword is absent or no digit was captured
RefIntAfter(src, key) ==
    IF Occurrences(src, key) = {} THEN None
    ELSE LET from == Least(Occurrences(src, key)) + Len(key)
             starts == { i \in from..Len(src) :
                             src[i] \in Digits \cup {"+", "-"} }
         IN  IF starts = {} THEN None
             ELSE LET b == Least(starts)
                      stops == { i \in (b + 1)..Len(src) : src[i] \notin Digits }
                      e == IF stops = {} THEN Len(src) ELSE Least(stops) - 1
                      ds == IF src[b] \in Digits THEN SubSeq(src, b, e)
                            ELSE SubSeq(src, b + 1, e)
                  IN  IF ds = << >> THEN None
                      ELSE IF src[b] = "-" THEN Some(-Decimal(ds))
                      ELSE Some(Decimal(ds))

\* C17: on every text within the bounds find_int_after returns what the
\* reference grammar returns.
C17_IntGrammar ==
    Scanned2 => Found.int = RefIntAfter(Src, ScanKey)

\* two occurrences of the keyword, a sign ahead of the digits, and a second
\* sign that ends the literal
C17_Witness ==
    /\ Scanned2
    /\ Cardinality(Occurrences(Src, ScanKey)) = 2
    /\ Found.int = Some(-7)
    /\ \E i \in 1..(Len(Src) - 2) :
          Src[i] = "-" /\ Src[i + 1] = "7" /\ Src[i + 2] \in {"+", "-"}

\* number of points in a text
Points(s) == Cardinality({ i \in DOMAIN s : s[i] = "." })

\* C18: the literal find_double_after captures starts at the first digit or
\* sign after the keyword (a point ahead of the first digit is filler and
\* is not captured) and holds at most one point.
C18_DoubleLiteral ==
    (Scanned2 /\ Found.literal # << >>) =>
        /\ Head(Found.literal) \in Digits \cup {"+", "-"}
        /\ Points(Found.literal) <= 1

\* C19: a call of process_line assigns a value to last_timestamp only if
\* current_total is strictly greater when it returns than when it was
\* entered; it assigns none on a rollback, on a system reset or when the
\* total is unchanged, and after a rollback or a system reset
\* last_timestamp is None.
C19_TimestampOnlyOnIncrease ==
    Returned =>
        /\ TraceIdx("timestamp") # {} =>
              /\ core.current_total > Pre.current_total
              /\ \A i \in TraceIdx("timestamp") :
                    core.last_timestamp = Some(trace[i][2])
        /\ core.current_total <= Pre.current_total =>
              /\ TraceIdx("timestamp") = {}
              /\ core.last_timestamp \in { Pre.last_timestamp, None }
        /\ Ch.session_reset =>
              /\ TraceIdx("timestamp") = {}
              /\ core.last_timestamp = None

C19_Witness ==
    /\ Returned
    /\ TraceIdx("timestamp") # {}
    /\ Pre.last_timestamp = Some(1) /\ core.last_timestamp = Some(2)
    /\ core.current_total > Pre.current_total /\ Pre.current_total > 0

\* C20: process_line is a function of the CoreState and the line alone: the
\* CoreState it leaves, last_timestamp included, and the Change it returns
\* are the same whatever else differs between two calls.
C20_Deterministic ==
    Returned =>
        \A now \in Clock :
            LET r == ProcessLine(Pre, Sc, now)
            IN  core = r.core /\ Ch = r.change

----------------------------------------------------------------------------
(* Further properties of the decoder, read under Spec                      *)

AnyFlag ==
    \/ Ch.system_reset \/ Ch.stage_changed \/ Ch.active_changed
    \/ Ch.total_changed \/ Ch.session_reset

\* C27: a call of process_line that changes stage, current_total,
\* active_time_s, the active-time source or last_timestamp returns a Change
\* with at least one flag raised.
C27_FlagsCoverChanges ==
    (Returned /\ core # Pre) => AnyFlag

\* only the source of the active time changes, from derived to device
C27_Witness ==
    /\ Returned /\ core # Pre
    /\ core = [ Pre EXCEPT !.active_from_mcu = TRUE ]
    /\ Ch = [ ChangeDefault EXCEPT !.active_changed = TRUE ]

\* the CoreState at entry with the source of the active time flipped
PreFlipped == [ Pre EXCEPT !.active_from_mcu = ~Pre.active_from_mcu ]

\* C28: the source flag of the active time influences no transition: from
\* two states that differ in active_from_mcu only, process_line returns the
\* same Change and leaves the same stage, current_total and active_time_s
\* and last_timestamp set or not alike; a Duration value is added to a
\* device-reported active time as it is to a derived one.
C28_SourceNotRead ==
    Returned =>
        /\ \A now \in Clock :
              LET a == ProcessLine(Pre, Sc, now)
                  b == ProcessLine(PreFlipped, Sc, now)
              IN  /\ a.change = b.change
                  /\ a.core.stage = b.core.stage
                  /\ a.core.current_total = b.core.current_total
                  /\ a.core.active_time_s = b.core.active_time_s
                  /\ IsSome(a.core.last_timestamp) = IsSome(b.core.last_timestamp)
        /\ \E now \in Clock :
              LET b == ProcessLine(PreFlipped, Sc, now)
              IN  /\ Ch = b.change
                  /\ core.stage = b.core.stage
                  /\ core.current_total = b.core.current_total
                  /\ core.active_time_s = b.core.active_time_s
                  /\ IsSome(core.last_timestamp) = IsSome(b.core.last_timestamp)

\* a Duration value added to a device-reported active time
C28_Witness ==
    /\ Returned /\ IsReportLine /\ IsSome(Sc.duration) /\ ~Ch.session_reset
    /\ Pre.active_from_mcu /\ Pre.active_time_s = 500
    /\ core.active_time_s = 500 + (Unwrap(Sc.duration) \div 1000)
    /\ Unwrap(Sc.duration) # 0

----------------------------------------------------------------------------
(* Properties of handle_incoming_line, read under PlotSpec in the states   *)
(* where a call has just returned                                          *)

Handled == pc = "handled"

\* the samples of the total (not gap marks) the call pushed
TotalSamples == { i \in DOMAIN hist.pushed : IsSome(hist.pushed[i].y) }

----------------------------------------------------------------------------
(* Properties of the connection, of AppSpec and AppFair.  hist.handled     *)
(* holds what update passed to handle_incoming_line, and so to             *)
(* process_line, since the last connect.                                   *)

\* the message update took out of the line channel last
LastHandled == hist.handled[Len(hist.handled)]

\* C21: a message reporting a transport failure never reaches
\* process_line: every text passed to it was framed from the bytes of the
\* device.
C21_OnlyFramedLinesDecoded ==
    (Handled /\ hist.handled # << >>) => LastHandled.origin = "device"

\* the session fields of a CoreState as CoreState::new leaves them
FreshSession ==
    /\ core.stage = 0
    /\ core.current_total = 0
    /\ core.active_time_s = 0
    /\ core.last_timestamp = None

\* C22: whenever connect takes the status from Disconnected to Connected,
\* the CoreState the lines of that connection are decoded with is a fresh
\* one.
C22_ConnectStartsFresh ==
    [][(app.status = "Disconnected" /\ app'.status = "Connected")
          => FreshSession']_vars

\* what update took out of the line channel, as it was sent
Taken ==
    [ i \in DOMAIN hist.handled |->
        Entry(hist.handled[i].text, hist.handled[i].thread,
              hist.handled[i].origin) ]

IsPrefix(s, t) == Len(s) <= Len(t) /\ SubSeq(t, 1, Len(s)) = s

\* C23: while a connection is open the lines its reader thread framed are
\* passed on in the order they were framed, each once, none dropped,
\* duplicated or reordered: what was passed on is the beginning of what
\* the thread sent, and the rest waits in the channel in the same order.
C23_InOrderExactlyOnce ==
    /\ IsPrefix(Taken, hist.sent)
    /\ IsSome(app.line_rx) =>
          hist.sent = Taken \o io.lines[Unwrap(app.line_rx)]

\* two different device lines of one read were passed on, the second just
\* now
C23_Witness ==
    /\ Handled
    /\ Len(hist.handled) >= 2
    /\ hist.handled[Len(hist.handled) - 1].origin = "device"
    /\ LastHandled.origin = "device"
    /\ hist.handled[Len(hist.handled) - 1].text # LastHandled.text

\* C29: no line produced by the reader thread of an earlier connection is
\* ever passed to process_line: whatever update passes on was sent by the
\* thread that the latest connect started.
C29_NoLineOfEarlierConnection ==
    \A i \in DOMAIN hist.handled :
        hist.handled[i].thread = hist.handled[i].during

\* a message of the second connection is passed on after the thread of
\* the first one, still running, framed lines that it could not send
C29_Witness ==
    /\ Handled
    /\ Len(io.thread) = 2
    /\ app.line_rx = Some(2)
    /\ LastHandled.thread = 2
    /\ 1 \in hist.refused

\* thread c was started and the window holds neither the sender of its
\* command channel nor the receiver of its line channel
Dropped(c) ==
    /\ c \in DOMAIN io.thread
    /\ app.cmd_tx # Some(rx_cmd(io, c))
    /\ app.line_rx # Some(tx_line(io, c))

\* thread c has returned
Gone(c) == c \in DOMAIN io.thread /\ io.thread[c].pc = "done"

\* C24: once disconnect has dropped the command sender and the line
\* receiver of a connection, its reader thread eventually returns, every
\* read returning within its timeout.
C24_DroppedThreadEnds == \A c \in Threads : Dropped(c) ~> Gone(c)

\* the thread of the first connection has returned after a send of a
\* framed line failed, the window being disconnected
C24_Witness ==
    /\ Len(io.thread) = 1
    /\ Dropped(1) /\ Gone(1)
    /\ 1 \in hist.refused
    /\ app.status = "Disconnected"

\* the stream of thread c, which the window is connected to, is at its
\* end
AtEof(c) ==
    /\ c \in DOMAIN io.thread
    /\ io.thread[c].eof
    /\ app.line_rx = Some(tx_line(io, c))

\* C25: when the remote end closes the connection, so that read returns
\* zero bytes, the reader thread returns and the status eventually becomes
\* Disconnected.
C25_EofEndsConnection ==
    \A c \in Threads :
        /\ AtEof(c) ~> Gone(c)
        /\ AtEof(c) ~> (app.status = "Disconnected")

\* the thread the window is connected to has returned
EndedOnItsOwn ==
    /\ app.status = "Connected"
    /\ IsSome(app.line_rx)
    /\ Gone(Unwrap(app.line_rx))

\* C30: when a reader thread returns while the window is connected to it,
\* update finds the channel closed only after it has passed on every
\* message the thread sent, the final "[ERROR]" message included, which
\* handle_incoming_line puts into last_error; the status then eventually
\* is Disconnected with cmd_tx and line_rx cleared.
C30_ThreadEndIsObserved ==
    /\ [](hist.observed => hist.sent = Taken)
    /\ []((Handled /\ StartsWith(Line, TAG_ERROR)) => app.last_error = raw)
    /\ EndedOnItsOwn ~> ( /\ app.status = "Disconnected"
                          /\ app.cmd_tx = None
                          /\ app.line_rx = None )

\* update has found the channel closed after passing on two device lines
\* and the message of the failed read
C30_Witness ==
    /\ hist.observed
    /\ Len(hist.handled) = 3
    /\ hist.handled[1].origin = "device"
    /\ LastHandled.text = MSG_ReadFailed
    /\ app.last_error = Some(MSG_ReadFailed)
    /\ app.status = "Disconnected" /\ app.cmd_tx = None /\ app.line_rx = None

----------------------------------------------------------------------------
(* The gap mark of handle_incoming_line, of PlotSpec                       *)

\* this step is a call of handle_incoming_line that raises current_total
\* more than GAP_THRESHOLD seconds after the total was raised last
IncreaseAfterIdle ==
    /\ hist'.calls = hist.calls + 1
    /\ core'.current_total > core.current_total
    /\ IsSome(app.last_pulse_time)
    /\ instant - Unwrap(app.last_pulse_time) > GAP_THRESHOLD

\* C31: when a line raises current_total and more than GAP_THRESHOLD
\* seconds have passed since the total was raised last,
\* handle_incoming_line pushes a NaN sample on plot_points right before
\* the new sample.
C31_GapMarkAfterIdle ==
    [][IncreaseAfterIdle =>
          /\ Len(hist'.pushed) = 2
          /\ hist'.pushed[1].y = None
          /\ hist'.pushed[2].y = Some(core'.current_total)]_vars

====
